---- MODULE Spec2Model ----
(***************************************************************************)
(* Model of src/tune_params.py: the three stochastic graph-IHT optimizers  *)
(* (algo_graph_sto_iht, algo_graph_svrg_iht, algo_graph_scsg_iht) with the *)
(* helpers they share (algo_head_tail_bisearch, calc_num_observations,     *)
(* calc_grad, get_batch).                                                  *)
(*                                                                         *)
(* The source is Python 2: `/` between two ints is floor division, so      *)
(* int(n) / int(B) and B / b are integers and range() accepts them.        *)
(*                                                                         *)
(* Numbers.  Vectors are functions 0..p-1 -> Int.  The entries of x0, y_tr *)
(* and of every iterate are counted in multiples of Unit, so the iterate   *)
(* norm test `norm(x_hat) >= 1e5` is `norm(k) >= 1e5 / Unit` on the stored *)
(* integers k.  A Euclidean norm is represented by its square (the sum of  *)
(* squares); comparisons of two non-negative norms are comparisons of      *)
(* their squares.  The learning rate is a rational <<num, den>>.           *)
(***************************************************************************)
EXTENDS Integers, Sequences, FiniteSets, TLC

VARIABLES
    variant,      \* which optimizer is running: "sto", "svrg" or "scsg"
    x_mat,        \* design matrix: row index 0..n-1 -> (0..p-1 -> Int)
    y_tr,         \* measurements: 0..n-1 -> Int
    max_epochs,   \* epoch budget
    lr,           \* learning rate <<num, den>>
    x0,           \* initial point
    tol_algo,     \* tolerance for early stopping
    s,            \* sparsity
    B,            \* block size (reassigned by the set-up of sto and scsg)
    b,            \* mini block size (reassigned by the set-up of svrg)
    n,            \* number of rows of x_mat
    h_low, h_high, t_low, t_high,   \* graph projection parameters
    num_blocks,   \* sto: num_blocks, svrg: num_batches (0 in scsg: not computed)
    x_hat,        \* the iterate
    x_nil,        \* the working copy of svrg / scsg
    outer_grad,   \* the outer gradient of svrg / scsg
    gradient,     \* the gradient used by the last inner iteration
    block,        \* the range returned by the last get_batch call
    block_arg,    \* the batch_size argument of the last get_batch call
    epoch_i,      \* loop variable of the epoch loop (-1: not yet bound)
    inner_i,      \* number of inner iterations done in the current epoch
    num_epochs, num_iter, loss_list,
    pc,           \* "start", "loop", "inner", "done", "error" ("proj" in ProjSpec)
    exit,         \* how the loop was left: "none", "diverged", "converged", "exhausted"
    error,        \* the exception raised ("none" when there is none)
    printed,      \* number of progress lines printed
    num_draws,    \* number of get_batch calls
    num_proj,     \* number of algo_head_tail_bisearch calls
    proj_call     \* a call of algo_head_tail_bisearch on its own: arguments and result

vars == <<variant, x_mat, y_tr, max_epochs, lr, x0, tol_algo, s, B, b, n,
          h_low, h_high, t_low, t_high, num_blocks, x_hat, x_nil, outer_grad,
          gradient, block, block_arg, epoch_i, inner_i, num_epochs, num_iter,
          loss_list, pc, exit, error, printed, num_draws, num_proj, proj_call>>

(***************************************************************************)
(* Bounds of the checked instances.                                        *)
(***************************************************************************)
P == 2            \* signal dimension p = len(x0)
MaxN == 4         \* sample counts n in 1..MaxN
MaxBatch == 3     \* block sizes B and mini block sizes b in 1..MaxBatch
MaxEpochs == 2    \* max_epochs in 0..MaxEpochs
Unit == 20000     \* resolution of the entries of x0, y_tr and the iterates
MaxEntry == 2     \* entries -MaxEntry..MaxEntry of a vector projected on its own

(***************************************************************************)
(* Program constants.                                                      *)
(***************************************************************************)
DivergeNorm == 100000   \* the 1e5 of lines 229, 312, 393
GammaPercent == 10      \* gamma = 0.1, the default of lines 171, 244, 325

Nodes == 0..(P - 1)
ZeroVec == [j \in Nodes |-> 0]
Abs(v) == IF v < 0 THEN 0 - v ELSE v

RECURSIVE SumRange(_, _, _)
\* sum of f[i] for i in range(start, stop)
SumRange(f, start, stop) ==
    IF start >= stop THEN 0 ELSE f[start] + SumRange(f, start + 1, stop)

\* np.linalg.norm(v) ** 2
NormSq(v) == SumRange([j \in Nodes |-> v[j] * v[j]], 0, P)

\* np.linalg.norm(v) >= t for a threshold t >= 0 (no square is taken of an
\* entry that alone reaches the threshold)
NormGE(v, t) == (\E j \in Nodes : Abs(v[j]) >= t) \/ NormSq(v) >= t * t

\* np.linalg.norm(v) > t for a threshold t >= 0
NormGT(v, t) == (\E j \in Nodes : Abs(v[j]) > t) \/ NormSq(v) > t * t

\* the blow-up threshold 1e5 in multiples of Unit
DivergeUnits == DivergeNorm \div Unit

\* variant of Diverged with a strict comparison
DivergedStrict(x) == NormGT(x, DivergeUnits)

\* the divergence test of lines 229, 312, 393: np.linalg.norm(x_hat) >= 1e5
Diverged(x) == NormGE(x, DivergeUnits)

\* variant of LoopContinues that runs one epoch too many
LoopContinuesOffByOne(started, budget) == started <= budget

\* `for epoch_i in range(max_epochs)` (lines 211, 285, 365): another epoch
\* starts while fewer than max_epochs epochs were started
LoopContinues(started, budget) == started < budget

\* variant of StoNumBlocks that rounds up
StoNumBlocksCeil(nn, BB) == (nn + BB - 1) \div BB

\* num_blocks = int(n) / int(B) (line 205)
StoNumBlocks(nn, BB) == nn \div BB

\* y_tr - np.dot(x_mat, x) over the rows 0..nn-1
Residual(xm, y, x, nn) ==
    [i \in 0..(nn - 1) |-> y[i] - SumRange([j \in Nodes |-> xm[i][j] * x[j]], 0, P)]

\* np.linalg.norm(y_tr - np.dot(x_mat, x)) ** 2
ResidualNormSq(xm, y, x, nn) ==
    SumRange([i \in 0..(nn - 1) |-> Residual(xm, y, x, nn)[i] * Residual(xm, y, x, nn)[i]], 0, nn)

\* residual_norm <= tol_algo, for tol_algo >= 0
ResidualLE(xm, y, x, nn, tol) ==
    /\ \A i \in 0..(nn - 1) : Abs(Residual(xm, y, x, nn)[i]) <= tol
    /\ ResidualNormSq(xm, y, x, nn) <= tol * tol

\* lr * v for the rational lr = <<num, den>>
Scale(rate, v) == [j \in Nodes |-> (rate[1] * v[j]) \div rate[2]]

VecSub(u, v) == [j \in Nodes |-> u[j] - v[j]]
VecAdd(u, v) == [j \in Nodes |-> u[j] + v[j]]

\* int(v * (1. + gamma))
TimesOnePlusGamma(v) == (v * (100 + GammaPercent)) \div 100

(***************************************************************************)
(* calc_grad: -2 * (xty - xtx . x_hat) over the rows of the block.         *)
(***************************************************************************)
CalcGrad(xm, y, x, blk) ==
    LET xtx == [j \in Nodes |-> [k \in Nodes |->
                   SumRange([i \in blk.start..(blk.stop - 1) |-> xm[i][j] * xm[i][k]],
                            blk.start, blk.stop)]]
        xty == [j \in Nodes |->
                   SumRange([i \in blk.start..(blk.stop - 1) |-> xm[i][j] * y[i]],
                            blk.start, blk.stop)]
    IN  [j \in Nodes |->
            (0 - 2) * (xty[j] - SumRange([k \in Nodes |-> xtx[j][k] * x[k]], 0, P))]

\* Python's range(start, stop)
Range(start, stop) == [start |-> start, stop |-> stop]
RangeSet(r) == r.start..(r.stop - 1)

\* variant of GetBatch that starts the block at batch_idx instead of
\* batch_size * batch_idx
GetBatchUnscaledStart(batch_size, nn) ==
    LET batches == nn \div batch_size
    IN  {Range(batch_idx, batch_idx + batch_size) : batch_idx \in 0..(batches - 1)}

(***************************************************************************)
(* get_batch: the ranges np.random.randint(0, num_batches) can select.     *)
(* The set is empty when num_batches = 0: randint raises ValueError.       *)
(***************************************************************************)
GetBatch(batch_size, nn) ==
    LET batches == nn \div batch_size
    IN  {Range(batch_size * batch_idx, batch_size * (batch_idx + 1)) :
            batch_idx \in 0..(batches - 1)}

(***************************************************************************)
(* calc_num_observations: int(B / K) + (b * t); ZeroDivisionError if K = 0 *)
(***************************************************************************)
CalcNumObservationsRaises(BB, bb, t, K) == K = 0
\* variant of CalcNumObservations that subtracts the inner observations
CalcNumObservationsMinus(BB, bb, t, K) == (BB \div K) - (bb * t)

CalcNumObservations(BB, bb, t, K) == (BB \div K) + (bb * t)

(***************************************************************************)
(* wrap_head_tail_bisearch is an external routine: any set of nodes can    *)
(* come back as re_nodes[0].                                               *)
(***************************************************************************)
WrapHeadTailBisearch(prizes, low, high) == SUBSET Nodes

(***************************************************************************)
(* algo_head_tail_bisearch: the possible results of one call, each with    *)
(* the arguments the oracle was given.                                     *)
(***************************************************************************)
\* variant of ClampHigh that clamps to len instead of len - 1
ClampHighToLen(high, len) == IF high >= len THEN len ELSE high

ClampHigh(high, len) == IF high >= len - 1 THEN len - 1 ELSE high

AlgoHeadTailBisearch(x, low, high) ==
    LET prizes == [j \in Nodes |-> x[j] * x[j]]
        oracle_high == ClampHigh(high, P)
    IN  {[x |-> x, s_low |-> low, s_high |-> high,
          prizes |-> prizes, oracle_high |-> oracle_high,
          re_nodes |-> nodes,
          proj_w |-> [j \in Nodes |-> IF j \in nodes THEN x[j] ELSE 0]] :
            nodes \in WrapHeadTailBisearch(prizes, low, oracle_high)}

\* variant of VrGradient that applies the correction in every epoch
VrGradientAlwaysCorrected(epoch, xm, y, xnil, xhat, og, blk) ==
    VecAdd(VecSub(CalcGrad(xm, y, xnil, blk), CalcGrad(xm, y, xhat, blk)), og)

(***************************************************************************)
(* The variance-reduced gradient of svrg / scsg (lines 293-297, 374-378).  *)
(***************************************************************************)
VrGradient(epoch, xm, y, xnil, xhat, og, blk) ==
    IF epoch < 1
    THEN CalcGrad(xm, y, xnil, blk)
    ELSE VecAdd(VecSub(CalcGrad(xm, y, xnil, blk), CalcGrad(xm, y, xhat, blk)), og)

(***************************************************************************)
(* Inputs.                                                                 *)
(***************************************************************************)
\* design matrices: row i is the unit vector of coordinate i mod p
Design(nn) == [i \in 0..(nn - 1) |-> [j \in Nodes |-> IF j = i % P THEN 1 ELSE 0]]

\* true signals: one unit on coordinate 0
XStar == [j \in Nodes |-> IF j = 0 THEN 1 ELSE 0]

\* a point whose norm is exactly 5 units
XBig == [j \in Nodes |-> IF j = 0 THEN 3 ELSE IF j = 1 THEN 4 ELSE 0]

X0Set == {ZeroVec, XBig}
LrSet == {<<1, 2>>, <<3, 2>>}
TolSet == {0}
SparsitySet == {2}

\* block and mini block sizes: sto never reads b, svrg overwrites b with 1
\* and never reads B, so only the arguments a variant reads are varied
BatchArgs(v) ==
    IF v = "sto" THEN (1..MaxBatch) \X {1}
    ELSE IF v = "svrg" THEN {<<MaxBatch, MaxBatch>>}
    ELSE (1..MaxBatch) \X (1..MaxBatch)

Measure(xm, x, nn) ==
    [i \in 0..(nn - 1) |-> SumRange([j \in Nodes |-> xm[i][j] * x[j]], 0, P)]

NoBlock == Range(0, 0)
NoCall == <<>>

Init ==
    /\ variant \in {"sto", "svrg", "scsg"}
    /\ n \in 1..MaxN
    /\ x_mat = Design(n)
    /\ y_tr = Measure(x_mat, XStar, n)
    /\ max_epochs \in 0..MaxEpochs
    /\ lr \in LrSet
    /\ x0 \in X0Set
    /\ tol_algo \in TolSet
    /\ s \in SparsitySet
    /\ \E sizes \in BatchArgs(variant) : B = sizes[1] /\ b = sizes[2]
    /\ h_low = 0 /\ h_high = 0 /\ t_low = 0 /\ t_high = 0
    /\ num_blocks = 0
    /\ x_hat = ZeroVec /\ x_nil = ZeroVec /\ outer_grad = ZeroVec
    /\ gradient = ZeroVec
    /\ block = NoBlock /\ block_arg = 0
    /\ epoch_i = -1 /\ inner_i = 0
    /\ num_epochs = 0 /\ num_iter = 0 /\ loss_list = <<>>
    /\ pc = "start" /\ exit = "none" /\ error = "none"
    /\ printed = 0 /\ num_draws = 0 /\ num_proj = 0
    /\ proj_call = NoCall

params == <<variant, x_mat, y_tr, max_epochs, lr, x0, tol_algo, s, n>>
projpara == <<h_low, h_high, t_low, t_high>>

(***************************************************************************)
(* Set-up of the three optimizers (lines 191-209, 265-283, 346-363).       *)
(***************************************************************************)
SetupCommon ==
    /\ x_hat' = x0
    /\ h_low' = P \div 2
    /\ h_high' = TimesOnePlusGamma(P \div 2)
    /\ t_low' = s
    /\ t_high' = TimesOnePlusGamma(s)
    /\ num_epochs' = 0 /\ num_iter' = 0 /\ loss_list' = <<>>
    /\ pc' = "loop"
    /\ UNCHANGED <<params, x_nil, outer_grad, gradient, block, block_arg,
                   epoch_i, inner_i, exit, error, printed, num_draws,
                   num_proj, proj_call>>

StoSetup ==
    /\ pc = "start" /\ variant = "sto"
    /\ B' = (IF n < B THEN n ELSE B)
    /\ num_blocks' = StoNumBlocks(n, B')
    /\ b' = b
    /\ SetupCommon

SvrgSetup ==
    /\ pc = "start" /\ variant = "svrg"
    /\ b' = 1
    /\ num_blocks' = n \div b'
    /\ B' = B
    /\ SetupCommon

ScsgSetup ==
    /\ pc = "start" /\ variant = "scsg"
    /\ B' = (IF n < B THEN n ELSE B)
    /\ b' = b
    /\ num_blocks' = 0
    /\ SetupCommon

(***************************************************************************)
(* One inner iteration: head projection of the gradient, gradient step,   *)
(* tail projection of the result (lines 217-223, 298-304, 379-385).  The   *)
(* set holds one record per pair of oracle answers.                        *)
(***************************************************************************)
ProjectedStep(xcur, grad) ==
    UNION {{[proj_grad |-> head.proj_w, proj_bt |-> tail.proj_w] :
              tail \in AlgoHeadTailBisearch(VecSub(xcur, Scale(lr, head.proj_w)),
                                            t_low, t_high)} :
           head \in AlgoHeadTailBisearch(grad, h_low, h_high)}

RaiseError(name) ==
    /\ pc' = "error"
    /\ error' = name

(***************************************************************************)
(* algo_graph_sto_iht, lines 211-239.                                      *)
(***************************************************************************)
StoEpochBegin ==
    /\ pc = "loop" /\ variant = "sto"
    /\ LoopContinues(num_epochs, max_epochs)
    /\ epoch_i' = num_epochs
    /\ num_epochs' = num_epochs + 1
    /\ inner_i' = 0
    /\ pc' = "inner"
    /\ UNCHANGED <<params, B, b, projpara, num_blocks, x_hat, x_nil, outer_grad,
                   gradient, block, block_arg, num_iter, loss_list, exit, error,
                   printed, num_draws, num_proj, proj_call>>

StoInner ==
    /\ pc = "inner" /\ variant = "sto"
    /\ inner_i < num_blocks
    /\ num_iter' = num_iter + 1
    /\ num_draws' = num_draws + 1
    /\ block_arg' = B
    /\ IF GetBatch(B, n) = {}
       THEN /\ RaiseError("ValueError")
            /\ UNCHANGED <<block, gradient, x_hat, inner_i, num_proj>>
       ELSE /\ \E blk \in GetBatch(B, n) :
                /\ block' = blk
                /\ gradient' = CalcGrad(x_mat, y_tr, x_hat, blk)
                /\ \E step \in ProjectedStep(x_hat, gradient') :
                    x_hat' = step.proj_bt
            /\ num_proj' = num_proj + 2
            /\ inner_i' = inner_i + 1
            /\ UNCHANGED <<pc, error>>
    /\ UNCHANGED <<params, B, b, projpara, num_blocks, x_nil, outer_grad,
                   epoch_i, num_epochs, loss_list, exit, printed, proj_call>>

StoEpochEnd ==
    /\ pc = "inner" /\ variant = "sto"
    /\ inner_i >= num_blocks
    /\ IF Diverged(x_hat)
       THEN /\ pc' = "done" /\ exit' = "diverged"
            /\ UNCHANGED <<loss_list, printed, error>>
       ELSE IF ResidualLE(x_mat, y_tr, x_hat, n, tol_algo)
       THEN /\ pc' = "done" /\ exit' = "converged"
            /\ UNCHANGED <<loss_list, printed, error>>
       ELSE IF CalcNumObservationsRaises(0, B, num_iter, num_blocks)
       THEN /\ RaiseError("ZeroDivisionError")
            /\ UNCHANGED <<loss_list, printed, exit>>
       ELSE /\ loss_list' = Append(loss_list,
                  [num_obs |-> CalcNumObservations(0, B, num_iter, num_blocks),
                   residual_norm_sq |-> ResidualNormSq(x_mat, y_tr, x_hat, n)])
            /\ printed' = printed + 1
            /\ pc' = "loop"
            /\ UNCHANGED <<exit, error>>
    /\ UNCHANGED <<params, B, b, projpara, num_blocks, x_hat, x_nil, outer_grad,
                   gradient, block, block_arg, epoch_i, inner_i, num_epochs,
                   num_iter, num_draws, num_proj, proj_call>>

(***************************************************************************)
(* algo_graph_svrg_iht, lines 285-320.                                     *)
(***************************************************************************)
SvrgEpochBegin ==
    /\ pc = "loop" /\ variant = "svrg"
    /\ LoopContinues(num_epochs, max_epochs)
    /\ epoch_i' = num_epochs
    /\ num_epochs' = num_epochs + 1
    /\ outer_grad' = CalcGrad(x_mat, y_tr, x_hat, Range(0, n))
    /\ x_nil' = x_hat
    /\ inner_i' = 0
    /\ pc' = "inner"
    /\ UNCHANGED <<params, B, b, projpara, num_blocks, x_hat,
                   gradient, block, block_arg, num_iter, loss_list, exit, error,
                   printed, num_draws, num_proj, proj_call>>

\* the body of the inner loop shared by svrg (lines 290-305) and scsg
\* (lines 371-386): one draw of a block of size b, the variance-reduced
\* gradient, the two projections, the update of x_nil
VrInnerBody ==
    /\ num_iter' = num_iter + 1
    /\ num_draws' = num_draws + 1
    /\ block_arg' = b
    /\ IF GetBatch(b, n) = {}
       THEN /\ RaiseError("ValueError")
            /\ UNCHANGED <<block, gradient, x_nil, inner_i, num_proj>>
       ELSE /\ \E blk \in GetBatch(b, n) :
                /\ block' = blk
                /\ gradient' = VrGradient(epoch_i, x_mat, y_tr, x_nil, x_hat,
                                          outer_grad, blk)
                /\ \E step \in ProjectedStep(x_nil, gradient') :
                    x_nil' = step.proj_bt
            /\ num_proj' = num_proj + 2
            /\ inner_i' = inner_i + 1
            /\ UNCHANGED <<pc, error>>
    /\ UNCHANGED <<params, B, b, projpara, num_blocks, x_hat, outer_grad,
                   epoch_i, num_epochs, loss_list, exit, printed, proj_call>>

SvrgInner ==
    /\ pc = "inner" /\ variant = "svrg"
    /\ inner_i < num_blocks
    /\ VrInnerBody

\* variant of VrEpochEndBody that appends to the loss record before the
\* terminal conditions are checked
VrEpochEndBodyAppendFirst(outer, K) ==
    /\ x_hat' = x_nil
    /\ printed' = printed + 1
    /\ IF CalcNumObservationsRaises(outer, b, num_iter, K)
       THEN /\ RaiseError("ZeroDivisionError")
            /\ UNCHANGED <<loss_list, exit>>
       ELSE /\ loss_list' = Append(loss_list,
                  [num_obs |-> CalcNumObservations(outer, b, num_iter, K),
                   residual_norm_sq |-> ResidualNormSq(x_mat, y_tr, x_hat', n)])
            /\ IF Diverged(x_hat')
               THEN pc' = "done" /\ exit' = "diverged"
               ELSE IF ResidualLE(x_mat, y_tr, x_hat', n, tol_algo)
               THEN pc' = "done" /\ exit' = "converged"
               ELSE pc' = "loop" /\ UNCHANGED exit
            /\ UNCHANGED error
    /\ UNCHANGED <<params, B, b, projpara, num_blocks, x_nil, outer_grad,
                   gradient, block, block_arg, epoch_i, inner_i, num_epochs,
                   num_iter, num_draws, num_proj, proj_call>>

\* the end of an epoch shared by svrg (lines 306-317, K = num_batches and
\* outer size n) and scsg (lines 387-398, K = B / b and outer size B)
VrEpochEndBody(outer, K) ==
    /\ x_hat' = x_nil
    /\ printed' = printed + 1
    /\ IF Diverged(x_hat')
       THEN /\ pc' = "done" /\ exit' = "diverged"
            /\ UNCHANGED <<loss_list, error>>
       ELSE IF ResidualLE(x_mat, y_tr, x_hat', n, tol_algo)
       THEN /\ pc' = "done" /\ exit' = "converged"
            /\ UNCHANGED <<loss_list, error>>
       ELSE IF CalcNumObservationsRaises(outer, b, num_iter, K)
       THEN /\ RaiseError("ZeroDivisionError")
            /\ UNCHANGED <<loss_list, exit>>
       ELSE /\ loss_list' = Append(loss_list,
                  [num_obs |-> CalcNumObservations(outer, b, num_iter, K),
                   residual_norm_sq |-> ResidualNormSq(x_mat, y_tr, x_hat', n)])
            /\ pc' = "loop"
            /\ UNCHANGED <<exit, error>>
    /\ UNCHANGED <<params, B, b, projpara, num_blocks, x_nil, outer_grad,
                   gradient, block, block_arg, epoch_i, inner_i, num_epochs,
                   num_iter, num_draws, num_proj, proj_call>>

SvrgEpochEnd ==
    /\ pc = "inner" /\ variant = "svrg"
    /\ inner_i >= num_blocks
    /\ VrEpochEndBody(n, num_blocks)

(***************************************************************************)
(* algo_graph_scsg_iht, lines 365-401.                                     *)
(***************************************************************************)
ScsgEpochBegin ==
    /\ pc = "loop" /\ variant = "scsg"
    /\ LoopContinues(num_epochs, max_epochs)
    /\ epoch_i' = num_epochs
    /\ num_epochs' = num_epochs + 1
    /\ num_draws' = num_draws + 1
    /\ block_arg' = B
    /\ IF GetBatch(B, n) = {}
       THEN /\ RaiseError("ValueError")
            /\ UNCHANGED <<block, outer_grad, x_nil, inner_i>>
       ELSE /\ \E blk \in GetBatch(B, n) :
                /\ block' = blk
                /\ outer_grad' = CalcGrad(x_mat, y_tr, x_hat, blk)
            /\ x_nil' = x_hat
            /\ inner_i' = 0
            /\ pc' = "inner"
            /\ UNCHANGED error
    /\ UNCHANGED <<params, B, b, projpara, num_blocks, x_hat, gradient,
                   num_iter, loss_list, exit, printed, num_proj, proj_call>>

\* variant of ScsgInnerCount that rounds up
ScsgInnerCountCeil(BB, bb) == (BB + bb - 1) \div bb

\* the number of inner iterations of one epoch: range(B / b) (line 370)
ScsgInnerCount(BB, bb) == BB \div bb

ScsgInner ==
    /\ pc = "inner" /\ variant = "scsg"
    /\ inner_i < ScsgInnerCount(B, b)
    /\ VrInnerBody

ScsgEpochEnd ==
    /\ pc = "inner" /\ variant = "scsg"
    /\ inner_i >= ScsgInnerCount(B, b)
    /\ VrEpochEndBody(B, B \div b)

(***************************************************************************)
(* The epoch loop is exhausted: lines 237-239, 318-320, 399-401.           *)
(***************************************************************************)
Return ==
    /\ pc = "loop"
    /\ ~LoopContinues(num_epochs, max_epochs)
    /\ pc' = "done"
    /\ exit' = "exhausted"
    /\ UNCHANGED <<params, B, b, projpara, num_blocks, x_hat, x_nil, outer_grad,
                   gradient, block, block_arg, epoch_i, inner_i, num_epochs,
                   num_iter, loss_list, error, printed, num_draws, num_proj,
                   proj_call>>

Next ==
    \/ StoSetup \/ SvrgSetup \/ ScsgSetup
    \/ StoEpochBegin \/ StoInner \/ StoEpochEnd
    \/ SvrgEpochBegin \/ SvrgInner \/ SvrgEpochEnd
    \/ ScsgEpochBegin \/ ScsgInner \/ ScsgEpochEnd
    \/ Return

Spec == Init /\ [][Next]_vars

(***************************************************************************)
(* algo_head_tail_bisearch called on its own (lines 33-56): one call on a  *)
(* vector with entries in -MaxEntry..MaxEntry and bounds in 0..p+1.        *)
(***************************************************************************)
InitProj ==
    /\ variant = "none"
    /\ n = 0
    /\ x_mat = <<>>
    /\ y_tr = <<>>
    /\ max_epochs = 0
    /\ lr = <<0, 1>>
    /\ x0 = ZeroVec
    /\ tol_algo = 0
    /\ s = 0
    /\ B = 0 /\ b = 0
    /\ h_low = 0 /\ h_high = 0 /\ t_low = 0 /\ t_high = 0
    /\ num_blocks = 0
    /\ x_hat = ZeroVec /\ x_nil = ZeroVec /\ outer_grad = ZeroVec
    /\ gradient = ZeroVec
    /\ block = NoBlock /\ block_arg = 0
    /\ epoch_i = -1 /\ inner_i = 0
    /\ num_epochs = 0 /\ num_iter = 0 /\ loss_list = <<>>
    /\ pc = "proj" /\ exit = "none" /\ error = "none"
    /\ printed = 0 /\ num_draws = 0 /\ num_proj = 0
    /\ proj_call = NoCall

ProjCall ==
    /\ pc = "proj"
    /\ proj_call = NoCall
    /\ \E x \in [Nodes -> (0 - MaxEntry)..MaxEntry], low \in 0..(P + 1),
          high \in 0..(P + 1) :
          \E result \in AlgoHeadTailBisearch(x, low, high) :
              proj_call' = result
    /\ num_proj' = num_proj + 1
    /\ UNCHANGED <<params, B, b, projpara, num_blocks, x_hat, x_nil, outer_grad,
                   gradient, block, block_arg, epoch_i, inner_i, num_epochs,
                   num_iter, loss_list, pc, exit, error, printed, num_draws>>

NextProj == ProjCall

ProjSpec == InitProj /\ [][NextProj]_vars

TypeOK ==
    /\ pc \in {"start", "loop", "inner", "done", "error", "proj"}
    /\ exit \in {"none", "diverged", "converged", "exhausted"}
    /\ num_epochs \in 0..max_epochs

(***************************************************************************)
(* Properties.                                                             *)
(***************************************************************************)
Returned == pc = "done"
Min(u, v) == IF u <= v THEN u ELSE v
CeilDiv(u, v) == (u + v - 1) \div v

\* x_hat is the iterate an epoch ended with: the epoch checks were just made
AfterEpochEnd == pc \in {"loop", "done", "error"} /\ num_epochs > 0

\* C1: with max_epochs = 0 no epoch and no inner iteration runs, no batch is
\* drawn, the projection is never called, and the run returns an empty loss
\* record and epochs_run = 0.
C1_ZeroEpochBudget ==
    (max_epochs = 0 /\ variant \in {"sto", "svrg", "scsg"}) =>
        /\ num_epochs = 0 /\ num_iter = 0
        /\ num_draws = 0 /\ num_proj = 0
        /\ loss_list = <<>>
        /\ pc \in {"start", "loop", "done"}
        /\ (pc = "done" => exit = "exhausted")

C1_Witness == max_epochs = 0 /\ Returned /\ exit = "exhausted" /\ variant = "scsg"

\* C2: num_observations never decreases from one entry of the loss record
\* to the next.
C2_NumObservationsMonotone ==
    \A i \in 1..(Len(loss_list) - 1) :
        loss_list[i + 1].num_obs >= loss_list[i].num_obs

C2_Witness ==
    /\ Len(loss_list) >= 2 /\ variant = "scsg" /\ B \div b >= 2
    /\ loss_list[2].num_obs > loss_list[1].num_obs

\* C3: a run ends only by returning: at the first epoch whose end state
\* meets a terminal condition (epochs_run is that epoch's index), or after
\* exactly max_epochs epochs none of which met one; it never ends otherwise,
\* and epochs_run <= max_epochs.
C3_StopsAtFirstTerminalEpoch ==
    /\ pc # "error"
    /\ num_epochs <= max_epochs
    /\ (Returned /\ exit = "exhausted") => num_epochs = max_epochs
    /\ (Returned /\ exit \in {"diverged", "converged"}) =>
           (NormGE(x_hat, DivergeUnits)
               \/ ResidualLE(x_mat, y_tr, x_hat, n, tol_algo))
    /\ (pc = "loop" /\ num_epochs > 0) =>
           ~(NormGE(x_hat, DivergeUnits)
               \/ ResidualLE(x_mat, y_tr, x_hat, n, tol_algo))

\* C4 as claimed: an epoch ends in DIVERGED exactly when the iterate norm at
\* its end is strictly greater than 1e5.
C4_DivergedIffNormExceeds ==
    AfterEpochEnd => ((exit = "diverged") <=> NormGT(x_hat, DivergeUnits))

\* C4 amended: an epoch ends in DIVERGED exactly when the iterate norm at
\* its end is greater than or equal to 1e5; a norm exactly equal to the
\* threshold stops the loop.
C4_DivergedIffNormAtLeast ==
    AfterEpochEnd => ((exit = "diverged") <=> NormGE(x_hat, DivergeUnits))

C4_Witness ==
    /\ Returned /\ exit = "diverged"
    /\ \A j \in Nodes : Abs(x_hat[j]) <= DivergeUnits
    /\ NormSq(x_hat) = DivergeUnits * DivergeUnits

C5_LengthAtReturn ==
    /\ Len(loss_list) <= num_epochs
    /\ (Returned /\ exit = "exhausted") => Len(loss_list) = num_epochs
    /\ (Returned /\ exit \in {"diverged", "converged"}) =>
           Len(loss_list) = num_epochs - 1

C5_AppendAfterChecks ==
    \/ loss_list' = loss_list
    \/ /\ Len(loss_list') = Len(loss_list) + 1
       /\ SubSeq(loss_list', 1, Len(loss_list)) = loss_list
       /\ pc = "inner" /\ pc' = "loop"
       /\ ~NormGE(x_hat', DivergeUnits)
       /\ ~ResidualLE(x_mat, y_tr, x_hat', n, tol_algo)

\* C5: the loss record only grows, by one entry at the end of an epoch that
\* met no terminal condition; at return it has epochs_run entries after
\* budget exhaustion and epochs_run - 1 entries after convergence or
\* divergence.
C5_LossRecordLength == []C5_LengthAtReturn /\ [][C5_AppendAfterChecks]_vars

C5_Witness ==
    /\ Returned /\ exit = "converged"
    /\ num_epochs = 2 /\ Len(loss_list) = 1

\* C6: the projection wrapper gives the oracle the elementwise square of x
\* as prizes and min(high, p - 1) as upper bound; the projected vector is x
\* on the returned support and zero elsewhere; a support within the bound
\* the oracle was given has at most `high` nodes.
C6_ProjectionWrapper ==
    proj_call # NoCall =>
        /\ proj_call.prizes = [j \in Nodes |-> proj_call.x[j] * proj_call.x[j]]
        /\ proj_call.oracle_high = Min(proj_call.s_high, P - 1)
        /\ \A j \in proj_call.re_nodes : proj_call.proj_w[j] = proj_call.x[j]
        /\ \A j \in Nodes \ proj_call.re_nodes : proj_call.proj_w[j] = 0
        /\ Cardinality(proj_call.re_nodes) <= proj_call.oracle_high =>
               Cardinality(proj_call.re_nodes) <= proj_call.s_high

C6_Witness ==
    /\ proj_call # NoCall
    /\ proj_call.s_high > P - 1
    /\ Cardinality(proj_call.re_nodes) = P - 1
    /\ \A j \in Nodes : proj_call.x[j] # 0

\* C7: a block drawn for batch size k out of n samples, 1 <= k <= n, is
\* range(k*i, k*(i+1)) for a block index i in 0..floor(n/k)-1: k indices,
\* all in 0..n-1; blocks of distinct indices do not overlap, and every block
\* index can be drawn.
C7_BatchIsOneBlock ==
    (num_draws > 0 /\ 1 <= block_arg /\ block_arg <= n) =>
        LET k == block_arg
            blocks == [i \in 0..((n \div k) - 1) |-> Range(k * i, k * (i + 1))]
        IN  /\ \E i \in DOMAIN blocks : block = blocks[i]
            /\ Cardinality(RangeSet(block)) = k
            /\ RangeSet(block) \subseteq 0..(n - 1)
            /\ \A i, j \in DOMAIN blocks :
                   i # j => RangeSet(blocks[i]) \cap RangeSet(blocks[j]) = {}
            /\ \A i \in DOMAIN blocks : blocks[i] \in GetBatch(k, n)
            /\ \A blk \in GetBatch(k, n) : \E i \in DOMAIN blocks : blk = blocks[i]

C7_Witness ==
    /\ num_draws > 0 /\ n = 4 /\ block_arg = 2
    /\ block = Range(2, 4)

\* C8: no run raises an error, whatever n >= 1 and the positive batch sizes
\* B and b are.
C8_NoErrorRaised == pc # "error"

C9_Step ==
    variant \in {"svrg", "scsg"} =>
        /\ (pc = "inner" /\ num_iter' = num_iter + 1) =>
             /\ gradient' =
                  (IF num_epochs = 1
                   THEN CalcGrad(x_mat, y_tr, x_nil, block')
                   ELSE [j \in Nodes |->
                            CalcGrad(x_mat, y_tr, x_nil, block')[j]
                            - CalcGrad(x_mat, y_tr, x_hat, block')[j]
                            + outer_grad[j]])
             /\ RangeSet(block') # {}
             /\ x_hat' = x_hat
             /\ outer_grad' = outer_grad
        /\ (pc = "inner" /\ pc' # "inner") => x_hat' = x_nil

\* C9: in svrg and scsg an inner iteration of the first epoch uses
\* grad(x_nil, block), one of a later epoch uses grad(x_nil, block) -
\* grad(x_hat, block) + outer_grad on the same block; inner iterations leave
\* x_hat and outer_grad as the epoch start set them, and the end of the
\* epoch replaces x_hat by x_nil.
C9_VarianceReducedGradient == [][C9_Step]_vars

C9_Witness ==
    /\ variant \in {"svrg", "scsg"}
    /\ num_epochs = 2 /\ pc = "inner" /\ inner_i >= 1
    /\ outer_grad # ZeroVec
    /\ gradient # CalcGrad(x_mat, y_tr, x_hat, block)
    /\ x_nil # x_hat

\* C10 as claimed: every epoch of sto runs ceil(n/B) inner iterations, B
\* being min(B, n).
C10_StoEpochIsCeilBlocks ==
    (variant = "sto" /\ AfterEpochEnd) =>
        /\ inner_i = CeilDiv(n, B)
        /\ num_iter = num_epochs * CeilDiv(n, B)

\* C10 amended: every epoch of sto runs floor(n/B) inner iterations, B being
\* min(B, n), and each inner iteration draws one block of size B.
C10_StoEpochIsFloorBlocks ==
    /\ (variant = "sto" /\ AfterEpochEnd) =>
          /\ inner_i = n \div B
          /\ num_iter = num_epochs * (n \div B)
    /\ (variant = "sto" /\ pc # "start") =>
          /\ B <= n
          /\ num_draws = num_iter
          /\ num_iter > 0 => (block_arg = B /\ block.stop - block.start = B)

C10_Witness ==
    /\ variant = "sto" /\ AfterEpochEnd
    /\ num_epochs = 2 /\ n = 3 /\ B = 2 /\ num_iter = 2

\* C11: every epoch of scsg draws one block of size B (B being min(B, n))
\* for the outer gradient and then runs floor(B/b) inner iterations, each
\* drawing one mini block of size b; after e completed epochs the cumulative
\* inner-iteration counter is e * floor(B/b).
C11_ScsgEpochSchedule ==
    (variant = "scsg" /\ pc # "start") =>
        /\ B <= n
        /\ AfterEpochEnd =>
              /\ inner_i = B \div b
              /\ num_iter = num_epochs * (B \div b)
        /\ pc = "inner" =>
              /\ inner_i <= B \div b
              /\ num_iter = (num_epochs - 1) * (B \div b) + inner_i
              /\ inner_i = 0 => (block_arg = B /\ block.stop - block.start = B)
              /\ inner_i > 0 => (block_arg = b /\ block.stop - block.start = b)
        /\ num_draws = num_epochs + num_iter

C11_Witness ==
    /\ variant = "scsg" /\ AfterEpochEnd
    /\ num_epochs = 2 /\ B = 3 /\ b = 2 /\ num_iter = 2 /\ num_draws = 4

\* C12: at return the number of progress lines printed equals epochs_run, in
\* sto, svrg and scsg alike: the epoch that ends in CONVERGED or DIVERGED
\* prints its line too.
C12_OneLinePerEpoch == Returned => printed = num_epochs

====
